---- MODULE Spec2Model ----
(***************************************************************************)
(* Model of the Splitwise client (src/splitwise/__init__.py): the OAuth    *)
(* handshake, the request gateway __makeRequest, the endpoint wrappers and *)
(* the flattening of sub-entities done by setUserArray.                    *)
(*                                                                         *)
(* Python dicts are modelled as functions from strings to strings, an      *)
(* object's insertion-ordered __dict__ as a sequence of <<field, value>>   *)
(* pairs, a missing attribute or key by an explicit marker.  The transport *)
(* (oauth2 / httplib2) is the environment: every call draws the response   *)
(* (status, body) it receives from a small set.                            *)
(***************************************************************************)
EXTENDS Integers, Sequences, FiniteSets, TLC

VARIABLES consumer, token, client, lastCall, expense, group,
          in_users, in_target, out_map, fpc

vars == <<consumer, token, client, lastCall, expense, group,
          in_users, in_target, out_map, fpc>>

clientVars == <<consumer, token, client, lastCall, expense, group>>

flatVars == <<in_users, in_target, out_map, fpc>>

(***************************************************************************)
(* Bounds                                                                  *)
(***************************************************************************)
MaxUsers == 2

MaxFields == 2

MaxPayload == 1

MaxMsgs == 2

(***************************************************************************)
(* Values                                                                  *)
(***************************************************************************)
Absent == "<absent>"

EmptyMap == [k \in {} |-> ""]

SPLITWISE_BASE_URL == "https://secure.splitwise.com/"

SPLITWISE_VERSION == "v3.0"

ApiUrl(name) == SPLITWISE_BASE_URL \o "api/" \o SPLITWISE_VERSION \o "/" \o name

REQUEST_TOKEN_URL == ApiUrl("get_request_token")

ACCESS_TOKEN_URL == ApiUrl("get_access_token")

AUTHORIZE_URL == SPLITWISE_BASE_URL \o "authorize"

GET_CURRENT_USER_URL == ApiUrl("get_current_user")

GET_USER_URL == ApiUrl("get_user")

GET_FRIENDS_URL == ApiUrl("get_friends")

GET_GROUPS_URL == ApiUrl("get_groups")

GET_GROUP_URL == ApiUrl("get_group")

GET_CURRENCY_URL == ApiUrl("get_currencies")

GET_CATEGORY_URL == ApiUrl("get_categories")

GET_EXPENSES_URL == ApiUrl("get_expenses")

GET_EXPENSE_URL == ApiUrl("get_expense")

CREATE_EXPENSE_URL == ApiUrl("create_expense")

CREATE_GROUP_URL == ApiUrl("create_group")

DELETE_GROUP_URL == ApiUrl("delete_group")

\* The classes of the exceptions the client raises itself (lines 19-23) and
\* the Python built-in ones its statements can raise.
SplitwiseAPIException == "SplitwiseAPIException"

SplitwiseAPIUnauthorizedException == "SplitwiseAPIUnauthorizedException"

AttributeError == "AttributeError"

KeyError == "KeyError"

ValueError == "ValueError"

NoError == "-"

\* class SplitwiseAPIUnauthorizedException(SplitwiseAPIException): an
\* `except base` clause catches an exception of class cls.
IsInstance(cls, base) ==
    \/ cls = base
    \/ cls = SplitwiseAPIUnauthorizedException /\ base = SplitwiseAPIException

(***************************************************************************)
(* Credentials, tokens and the signing client                              *)
(***************************************************************************)
\* oauth.Consumer(consumer_key, consumer_secret), line 64.
Consumer(consumer_key, consumer_secret) == [key |-> consumer_key, secret |-> consumer_secret]

\* oauth.Token(key, secret); NoToken stands for the attribute self.token
\* not existing on the instance.
Token(key, secret) == [key |-> key, secret |-> secret]

NoToken == Token(Absent, Absent)

\* oauth.Client(consumer, token); NoClient stands for the attribute
\* self.client not existing on the instance.
Client(cons, tok) == [present |-> TRUE, consumer |-> cons, token |-> tok]

NoClient == [present |-> FALSE, consumer |-> Consumer(Absent, Absent), token |-> NoToken]

\* The access_token dicts a caller can pass: complete ones, and ones that
\* lack a key.  NoAccessToken is the constructor's default None.
NoAccessToken == [oauth_token |-> Absent, oauth_token_secret |-> Absent]

GoodAccessTokens ==
    { [oauth_token |-> "tokA", oauth_token_secret |-> "secA"],
      [oauth_token |-> "tokB", oauth_token_secret |-> "secB"] }

BadAccessTokens == { [oauth_token |-> "tokB", oauth_token_secret |-> Absent] }

\* Truth value of the access_token argument (line 67): None is falsy, a
\* dict with at least one key is truthy.
Truthy(access_token) == access_token # NoAccessToken

(***************************************************************************)
(* Responses of the transport                                              *)
(***************************************************************************)
Statuses == {"200", "401", "500"}

Reason(status) ==
    CASE status = "200" -> "OK"
      [] status = "401" -> "Unauthorized"
      [] OTHER -> "Internal Server Error"

AllMsgs == <<"bad request", "too big", "no access", "not found">>

Min(a, b) == IF a < b THEN a ELSE b

MsgLists == { SubSeq(AllMsgs, 1, n) : n \in 0..Min(MaxMsgs, Len(AllMsgs)) }

\* The value under the `errors` key of a JSON object: no such key, a map
\* from category to list of messages, or a plain list of messages.
NoErrors == [shape |-> "absent", cats |-> {}, base |-> <<>>, items |-> <<>>]

ErrorsValues ==
    {NoErrors}
    \cup { [shape |-> "map", cats |-> {}, base |-> <<>>, items |-> <<>>],
           [shape |-> "map", cats |-> {"amount"}, base |-> <<>>, items |-> <<>>] }
    \cup { [shape |-> "map", cats |-> {"base"}, base |-> b, items |-> <<>>] : b \in MsgLists }
    \cup { [shape |-> "map", cats |-> {"base", "amount"}, base |-> <<AllMsgs[1]>>, items |-> <<>>] }
    \cup { [shape |-> "list", cats |-> {}, base |-> <<>>, items |-> b] : b \in MsgLists }

\* The payload under the key a wrapper looks for: missing, or a list of
\* entities (a single entity is a list of one).
Payloads == { [present |-> FALSE, items |-> <<>>] }
            \cup { [present |-> TRUE, items |-> [i \in 1..n |-> 7 + i]] : n \in 0..MaxPayload }

Envelopes == [errors : ErrorsValues, payload : Payloads]

PlainEnvelope == [errors |-> NoErrors, payload |-> [present |-> FALSE, items |-> <<>>]]

\* Response bodies of the API endpoints: bytes that are no JSON, or the
\* text of a JSON object.
NotJson == [json |-> FALSE, content |-> PlainEnvelope]

Bodies == {NotJson} \cup { [json |-> TRUE, content |-> e] : e \in Envelopes }

\* The bodies that come with a status other than 200: no JSON, a plain JSON
\* object, and JSON objects that declare errors.
StatusBodies ==
    {NotJson}
    \cup { [json |-> TRUE, content |-> [errors |-> e, payload |-> PlainEnvelope.payload]] :
             e \in { NoErrors,
                      [shape |-> "map", cats |-> {"base"}, base |-> <<AllMsgs[1]>>, items |-> <<>>],
                      [shape |-> "list", cats |-> {}, base |-> <<>>, items |-> <<AllMsgs[1]>>] } }

\* What the transport can answer to a request of the gateway.
Responses ==
    [status : {"200"}, body : Bodies, form : {<<>>}]
    \cup [status : Statuses \ {"200"}, body : StatusBodies, form : {<<>>}]

\* Response bodies of the two token endpoints, as the list of pairs
\* parse_qsl makes of them.
FormBodies ==
    { <<>>,
      << <<"oauth_token", "abc">> >>,
      << <<"oauth_token", "abc">>, <<"oauth_token_secret", "xyz">> >>,
      << <<"oauth_token_secret", "xyz">>, <<"oauth_token", "tokB">> >> }

FormResponses == [status : Statuses, body : {NotJson}, form : FormBodies]

\* dict(pairs)[key], Absent when no pair has the key (the last pair wins).
RECURSIVE DictGet(_, _)
DictGet(pairs, key) ==
    IF pairs = <<>> THEN Absent
    ELSE IF pairs[Len(pairs)][1] = key THEN pairs[Len(pairs)][2]
    ELSE DictGet(SubSeq(pairs, 1, Len(pairs) - 1), key)

\* json.loads(resp_bytes.decode("utf-8")), line 131.
json_loads(body) == [ok |-> body.json, content |-> body.content]

\* ", ".join(parts), line 136.
RECURSIVE Join(_)
Join(parts) ==
    IF parts = <<>> THEN ""
    ELSE IF Len(parts) = 1 THEN parts[1]
    ELSE parts[1] \o ", " \o Join(Tail(parts))

\* len(errors), line 135.
ErrorsLen(errors) ==
    IF errors.shape = "list" THEN Len(errors.items) ELSE Cardinality(errors.cats)

(***************************************************************************)
(* The request gateway                                                     *)
(***************************************************************************)
NoRequest == [url |-> Absent, method |-> Absent, form |-> EmptyMap, signedWith |-> NoToken]

Outcome(sent, request, parsed, raised, error, message, content) ==
    [sent |-> sent, request |-> request, parsed |-> parsed, raised |-> raised,
     error |-> error, message |-> message, content |-> content]

\* Lines 124-129: what a status other than 200 raises.
statusError(status) ==
    IF status = "401"
    THEN [parsed |-> FALSE, raised |-> TRUE, error |-> SplitwiseAPIUnauthorizedException,
          message |-> "Unauthorized", content |-> PlainEnvelope]
    ELSE [parsed |-> FALSE, raised |-> TRUE, error |-> SplitwiseAPIException,
          message |-> "Error response " \o status \o ". " \o Reason(status),
          content |-> PlainEnvelope]

\* Lines 131-139: the body parsed and searched for errors.  A body that is
\* no JSON makes json.loads raise ValueError; a list under `errors` has no
\* method get, so a non-empty one makes line 136 raise AttributeError.
bodyResult(url, body) ==
    LET parse == json_loads(body)
        errors == parse.content.errors
    IN  IF ~parse.ok
        THEN [parsed |-> TRUE, raised |-> TRUE, error |-> ValueError, message |-> "json",
              content |-> PlainEnvelope]
        ELSE IF errors.shape # "absent" /\ ErrorsLen(errors) > 0
        THEN IF errors.shape = "list"
             THEN [parsed |-> TRUE, raised |-> TRUE, error |-> AttributeError,
                   message |-> "get", content |-> PlainEnvelope]
             ELSE [parsed |-> TRUE, raised |-> TRUE, error |-> SplitwiseAPIException,
                   message |-> "Exception in " \o url \o ": " \o
                                 Join(IF "base" \in errors.cats THEN errors.base
                                      ELSE <<"unknown">>),
                   content |-> PlainEnvelope]
        ELSE [parsed |-> TRUE, raised |-> FALSE, error |-> NoError, message |-> "",
              content |-> parse.content]

\* A gateway that looks for declared errors in the body before it looks at
\* the status.
classify_body_first(url, resp) ==
    IF resp.body.json /\ resp.body.content.errors.shape = "map"
       /\ ErrorsLen(resp.body.content.errors) > 0
    THEN bodyResult(url, resp.body)
    ELSE IF resp.status # "200" THEN statusError(resp.status) ELSE bodyResult(url, resp.body)

\* Lines 123-139: the response classified, the status first.
classify(url, resp) ==
    IF resp.status # "200" THEN statusError(resp.status) ELSE bodyResult(url, resp.body)

\* A gateway that, without self.client, falls back to a client signing
\* with the consumer alone.
makeRequest_unsigned(cl, url, method, data, resp) ==
    LET request == [url |-> url, method |-> method,
                    form |-> IF data # EmptyMap THEN data ELSE EmptyMap,
                    signedWith |-> cl.token]
        c == classify(url, resp)
    IN  Outcome(1, request, c.parsed, c.raised, c.error, c.message, c.content)

\* A gateway that sends the request once more after a status other than 200.
makeRequest_retry(cl, url, method, data, resp) ==
    IF ~cl.present
    THEN Outcome(0, NoRequest, FALSE, TRUE, AttributeError, "client", PlainEnvelope)
    ELSE LET request == [url |-> url, method |-> method,
                         form |-> IF data # EmptyMap THEN data ELSE EmptyMap,
                         signedWith |-> cl.token]
             c == classify(url, resp)
         IN  Outcome(IF resp.status # "200" THEN 2 ELSE 1, request, c.parsed, c.raised,
                     c.error, c.message, c.content)

\* Splitwise.__makeRequest, with cl the value of self.client and resp the
\* response the transport gives to the one request.  Without the attribute
\* self.client lines 117/119 raise AttributeError and nothing is sent.
makeRequest(cl, url, method, data, resp) ==
    IF ~cl.present
    THEN Outcome(0, NoRequest, FALSE, TRUE, AttributeError, "client", PlainEnvelope)
    ELSE LET request == [url |-> url, method |-> method,
                         form |-> IF data # EmptyMap THEN data ELSE EmptyMap,
                         signedWith |-> cl.token]
             c == classify(url, resp)
         IN  Outcome(1, request, c.parsed, c.raised, c.error, c.message, c.content)

(***************************************************************************)
(* Flattening of sub-entities                                              *)
(***************************************************************************)
\* user_array[key] = value on a dict.
Put(m, key, value) == [x \in DOMAIN m \cup {key} |-> IF x = key THEN value ELSE m[x]]

\* A flattening that writes every field name verbatim.
gen_key_verbatim(key) == key

\* Lines 297-300.
gen_key(key) == IF key = "id" THEN "user_id" ELSE key

\* The inner loop of setUserArray (lines 295-301) for the user at position
\* count, user_dict being the user's __dict__ in iteration order.
RECURSIVE setUserFields(_, _, _)
setUserFields(user_dict, count, user_array) ==
    IF user_dict = <<>> THEN user_array
    ELSE setUserFields(Tail(user_dict), count,
                       Put(user_array,
                           "users__" \o ToString(count) \o "__" \o gen_key(user_dict[1][1]),
                           user_dict[1][2]))

\* The outer loop of setUserArray: enumerate(users) from position count on.
RECURSIVE enumerateUsers(_, _, _)
enumerateUsers(users, count, user_array) ==
    IF users = <<>> THEN user_array
    ELSE enumerateUsers(Tail(users), count + 1, setUserFields(users[1], count, user_array))

\* Splitwise.setUserArray: the dict user_array after the call.
setUserArray(users, user_array) == enumerateUsers(users, 0, user_array)

(***************************************************************************)
(* The caller's records                                                    *)
(***************************************************************************)
userA == << <<"id", "1">>, <<"paid_share", "25">> >>

userB == << <<"owed_share", "25">>, <<"id", "2">> >>

\* An Expense object's __dict__: the scalar fields, and the `users` list
\* when the attribute exists.
ExpenseRecord(fields, users) == [fields |-> fields, hasUsers |-> TRUE, users |-> users]

\* A Group object's __dict__, the sub-entity list being `members`.
GroupRecord(fields, hasMembers, members) ==
    [fields |-> fields, hasMembers |-> hasMembers, members |-> members]

Expenses == { ExpenseRecord([k \in {"cost"} |-> "25"], <<userA, userB>>) }

Groups == { GroupRecord([k \in {"name"} |-> "trip"], TRUE, <<userA, userB>>) }

\* Expense.getUsers(): the record's users list.
getUsers(e) == e.users

\* Group.getMembers(): the record's members list.
getMembers(g) == g.members

(***************************************************************************)
(* Results of the operations                                               *)
(***************************************************************************)
Raise(error) == [raised |-> TRUE, error |-> error, kind |-> "raise", items |-> <<>>, a |-> Absent, b |-> Absent]

Return(kind, items) == [raised |-> FALSE, error |-> NoError, kind |-> kind, items |-> items, a |-> Absent, b |-> Absent]

ReturnPair(kind, a, b) == [raised |-> FALSE, error |-> NoError, kind |-> kind, items |-> <<>>, a |-> a, b |-> b]

NoResponse == [status |-> Absent, body |-> NotJson, form |-> <<>>]

\* The record of one finished call of a public operation: the response it
\* was given (when a request was sent), what the gateway did (requests sent,
\* the request, whether the body was parsed, what __makeRequest raised) and
\* what the caller gets.
Call(op, resp, out, res) ==
    [op |-> op, resp |-> IF out.sent = 0 THEN NoResponse ELSE resp,
     sent |-> out.sent, request |-> out.request, parsed |-> out.parsed,
     gateway |-> IF out.raised THEN out.error ELSE NoError,
     message |-> IF out.raised THEN out.message ELSE "",
     result |-> IF out.raised THEN Raise(out.error) ELSE res]

NoCall == [op |-> "__init__", resp |-> NoResponse,
           sent |-> 0, request |-> NoRequest, parsed |-> FALSE, gateway |-> NoError,
           message |-> "", result |-> Return("None", <<>>)]

\* CurrentUser(content["user"]) / User(content["user"]), lines 146 and 151.
EntityOf(content) ==
    IF content.payload.present THEN Return("entity", content.payload.items) ELSE Raise(KeyError)

\* The `if key in content` loops of the collection wrappers (lines 158-163).
ListOf(content) ==
    IF content.payload.present THEN Return("list", content.payload.items) ELSE Return("list", <<>>)

\* The `if key in content` of getGroup, getExpense, createGroup (lines 205-209).
EntityOrNone(content) ==
    IF content.payload.present THEN Return("entity", content.payload.items) ELSE Return("None", <<>>)

\* Lines 259-265 of createExpense.
FirstOrNone(content) ==
    IF content.payload.present /\ Len(content.payload.items) > 0
    THEN Return("entity", <<content.payload.items[1]>>) ELSE Return("None", <<>>)

\* urlencode(options) of a list of string pairs.
RECURSIVE urlencode(_)
urlencode(options) ==
    IF options = <<>> THEN ""
    ELSE options[1][1] \o "=" \o options[1][2]
         \o (IF Len(options) > 1 THEN "&" ELSE "") \o urlencode(Tail(options))

\* Splitwise.__prepareOptionsUrl
prepareOptionsUrl(options) == "?" \o urlencode(options)

\* The filters getExpenses is called with (those that are not None).
ExpenseOptions == { <<>>, << <<"limit", "10">>, <<"group_id", "5">> >> }

Ids == {5}

(***************************************************************************)
(* Token acquisition and installation                                      *)
(***************************************************************************)
HandshakeMessage(status) ==
    "Invalid response " \o status \o ". Please check your consumer key and secret."

\* A handshake that reports status 401 the way the gateway does.
HandshakeError_as_gateway(status) ==
    IF status = "401" THEN SplitwiseAPIUnauthorizedException ELSE SplitwiseAPIException

\* Lines 81-83 and 101-103: the class raised for a status that is not 200.
HandshakeError(status) == SplitwiseAPIException

\* Splitwise.getAuthorizeURL for the response resp: one POST signed with
\* the consumer alone (lines 73-76), then the status check and the parse.
getAuthorizeURL_call(cons, resp) ==
    LET request == [url |-> REQUEST_TOKEN_URL, method |-> "POST", form |-> EmptyMap,
                    signedWith |-> NoToken]
        oauth_token == DictGet(resp.form, "oauth_token")
        oauth_token_secret == DictGet(resp.form, "oauth_token_secret")
    IN  IF resp.status # "200"
        THEN Call("getAuthorizeURL", resp,
                  Outcome(1, request, FALSE, TRUE, HandshakeError(resp.status),
                          HandshakeMessage(resp.status), PlainEnvelope),
                  Raise(HandshakeError(resp.status)))
        ELSE IF oauth_token = Absent \/ oauth_token_secret = Absent
        THEN Call("getAuthorizeURL", resp,
                  Outcome(1, request, TRUE, TRUE, KeyError, "oauth_token", PlainEnvelope),
                  Raise(KeyError))
        ELSE Call("getAuthorizeURL", resp,
                  Outcome(1, request, TRUE, FALSE, NoError, "", PlainEnvelope),
                  ReturnPair("url", AUTHORIZE_URL \o "?oauth_token=" \o oauth_token,
                             oauth_token_secret))

\* Splitwise.getAccessToken for the response resp: one POST signed with the
\* request token (lines 92-96), then the status check and the parse.
getAccessToken_call(cons, oauth_token, oauth_token_secret, oauth_verifier, resp) ==
    LET request == [url |-> ACCESS_TOKEN_URL, method |-> "POST", form |-> EmptyMap,
                    signedWith |-> Token(oauth_token, oauth_token_secret)]
    IN  IF resp.status # "200"
        THEN Call("getAccessToken", resp,
                  Outcome(1, request, FALSE, TRUE, HandshakeError(resp.status),
                          HandshakeMessage(resp.status), PlainEnvelope),
                  Raise(HandshakeError(resp.status)))
        ELSE Call("getAccessToken", resp,
                  Outcome(1, request, TRUE, FALSE, NoError, "", PlainEnvelope),
                  ReturnPair("token", DictGet(resp.form, "oauth_token"),
                             DictGet(resp.form, "oauth_token_secret")))

\* A setAccessToken that drops the old token and client before it reads
\* the keys of its argument.
setAccessToken_state_clears(cons, tok, cl, access_token) ==
    IF access_token.oauth_token = Absent \/ access_token.oauth_token_secret = Absent
    THEN [raised |-> TRUE, token |-> NoToken, client |-> NoClient]
    ELSE LET t == Token(access_token.oauth_token, access_token.oauth_token_secret)
         IN  [raised |-> FALSE, token |-> t, client |-> Client(cons, t)]

\* The instance's token and client after setAccessToken(access_token), the
\* lookup of a missing key raising KeyError before anything is assigned.
setAccessToken_state(cons, tok, cl, access_token) ==
    IF access_token.oauth_token = Absent \/ access_token.oauth_token_secret = Absent
    THEN [raised |-> TRUE, token |-> tok, client |-> cl]
    ELSE LET t == Token(access_token.oauth_token, access_token.oauth_token_secret)
         IN  [raised |-> FALSE, token |-> t, client |-> Client(cons, t)]

\* Splitwise.__init__: the instance built from the arguments.
init_state(consumer_key, consumer_secret, access_token) ==
    LET cons == Consumer(consumer_key, consumer_secret)
    IN  IF Truthy(access_token)
        THEN [consumer |-> cons,
              token |-> setAccessToken_state(cons, NoToken, NoClient, access_token).token,
              client |-> setAccessToken_state(cons, NoToken, NoClient, access_token).client]
        ELSE [consumer |-> cons, token |-> NoToken, client |-> NoClient]

(***************************************************************************)
(* The client: initial state and operations                                *)
(***************************************************************************)
FlatIdle ==
    /\ in_users = <<>>
    /\ in_target = EmptyMap
    /\ out_map = EmptyMap
    /\ fpc = "idle"

Init ==
    /\ \E access_token \in {NoAccessToken} \cup GoodAccessTokens :
         LET self == init_state("ck", "cs", access_token)
         IN  /\ consumer = self.consumer
             /\ token = self.token
             /\ client = self.client
    /\ lastCall = NoCall
    /\ expense \in Expenses
    /\ group \in Groups
    /\ FlatIdle

getAuthorizeURL ==
    \E resp \in FormResponses :
        /\ lastCall' = getAuthorizeURL_call(consumer, resp)
        /\ UNCHANGED <<consumer, token, client, expense, group, flatVars>>

\* A getAccessToken that installs the token it obtained.
getAccessToken_installs ==
    \E resp \in FormResponses :
        LET call == getAccessToken_call(consumer, "abc", "xyz", "verifier", resp)
            st == setAccessToken_state(consumer, token, client,
                                       [oauth_token |-> call.result.a,
                                        oauth_token_secret |-> call.result.b])
        IN  /\ lastCall' = call
            /\ token' = IF call.result.raised THEN token ELSE st.token
            /\ client' = IF call.result.raised THEN client ELSE st.client
            /\ UNCHANGED <<consumer, expense, group, flatVars>>

getAccessToken ==
    \E resp \in FormResponses :
        /\ lastCall' = getAccessToken_call(consumer, "abc", "xyz", "verifier", resp)
        /\ UNCHANGED <<consumer, token, client, expense, group, flatVars>>

setAccessToken ==
    \E access_token \in GoodAccessTokens \cup BadAccessTokens :
        LET st == setAccessToken_state(consumer, token, client, access_token)
        IN  /\ token' = st.token
            /\ client' = st.client
            /\ lastCall' = [NoCall EXCEPT !.op = "setAccessToken",
                                          !.result = IF st.raised THEN Raise(KeyError)
                                                     ELSE Return("None", <<>>)]
            /\ UNCHANGED <<consumer, expense, group, flatVars>>

getCurrentUser ==
    \E resp \in Responses :
        LET content == makeRequest(client, GET_CURRENT_USER_URL, "GET", EmptyMap, resp)
        IN  /\ lastCall' = Call("getCurrentUser", resp, content, EntityOf(content.content))
            /\ UNCHANGED <<consumer, token, client, expense, group, flatVars>>

getUser ==
    \E resp \in Responses, id \in Ids :
        LET content == makeRequest(client, GET_USER_URL \o "/" \o ToString(id), "GET", EmptyMap, resp)
        IN  /\ lastCall' = Call("getUser", resp, content, EntityOf(content.content))
            /\ UNCHANGED <<consumer, token, client, expense, group, flatVars>>

getFriends ==
    \E resp \in Responses :
        LET content == makeRequest(client, GET_FRIENDS_URL, "GET", EmptyMap, resp)
        IN  /\ lastCall' = Call("getFriends", resp, content, ListOf(content.content))
            /\ UNCHANGED <<consumer, token, client, expense, group, flatVars>>

getGroups ==
    \E resp \in Responses :
        LET content == makeRequest(client, GET_GROUPS_URL, "GET", EmptyMap, resp)
        IN  /\ lastCall' = Call("getGroups", resp, content, ListOf(content.content))
            /\ UNCHANGED <<consumer, token, client, expense, group, flatVars>>

getCurrencies ==
    \E resp \in Responses :
        LET content == makeRequest(client, GET_CURRENCY_URL, "GET", EmptyMap, resp)
        IN  /\ lastCall' = Call("getCurrencies", resp, content, ListOf(content.content))
            /\ UNCHANGED <<consumer, token, client, expense, group, flatVars>>

getCategories ==
    \E resp \in Responses :
        LET content == makeRequest(client, GET_CATEGORY_URL, "GET", EmptyMap, resp)
        IN  /\ lastCall' = Call("getCategories", resp, content, ListOf(content.content))
            /\ UNCHANGED <<consumer, token, client, expense, group, flatVars>>

getGroup ==
    \E resp \in Responses, id \in Ids :
        LET content == makeRequest(client, GET_GROUP_URL \o "/" \o ToString(id), "GET", EmptyMap, resp)
        IN  /\ lastCall' = Call("getGroup", resp, content, EntityOrNone(content.content))
            /\ UNCHANGED <<consumer, token, client, expense, group, flatVars>>

getExpenses ==
    \E resp \in Responses, options \in ExpenseOptions :
        LET url == GET_EXPENSES_URL \o prepareOptionsUrl(options)
            content == makeRequest(client, url, "GET", EmptyMap, resp)
        IN  /\ lastCall' = Call("getExpenses", resp, content, ListOf(content.content))
            /\ UNCHANGED <<consumer, token, client, expense, group, flatVars>>

getExpense ==
    \E resp \in Responses, id \in Ids :
        LET content == makeRequest(client, GET_EXPENSE_URL \o "/" \o ToString(id), "GET", EmptyMap, resp)
        IN  /\ lastCall' = Call("getExpense", resp, content, EntityOrNone(content.content))
            /\ UNCHANGED <<consumer, token, client, expense, group, flatVars>>

\* A createExpense that flattens into the record but leaves `users` in it.
createExpense_data_keeps_users(e) ==
    [fields |-> setUserArray(getUsers(e), e.fields), hasUsers |-> TRUE, users |-> e.users]

\* The expense record after lines 247-256 of createExpense: `users` deleted
\* from its __dict__ and the flattened keys written into it.
createExpense_data(e) ==
    [fields |-> setUserArray(getUsers(e), e.fields), hasUsers |-> FALSE, users |-> <<>>]

createExpense ==
    \E resp \in Responses :
        IF ~expense.hasUsers
        THEN /\ lastCall' = Call("createExpense", resp,
                                 Outcome(0, NoRequest, FALSE, TRUE, KeyError, "users", PlainEnvelope),
                                 Raise(KeyError))
             /\ UNCHANGED <<consumer, token, client, expense, group, flatVars>>
        ELSE LET expense_data == createExpense_data(expense)
                 content == makeRequest(client, CREATE_EXPENSE_URL, "POST", expense_data.fields, resp)
             IN  /\ expense' = expense_data
                 /\ lastCall' = Call("createExpense", resp, content, FirstOrNone(content.content))
                 /\ UNCHANGED <<consumer, token, client, group, flatVars>>

\* The group record after lines 269-274 of createGroup.
createGroup_info(g) ==
    IF g.hasMembers
    THEN [fields |-> setUserArray(getMembers(g), g.fields), hasMembers |-> FALSE, members |-> <<>>]
    ELSE g

createGroup ==
    \E resp \in Responses :
        LET group_info == createGroup_info(group)
            content == makeRequest(client, CREATE_GROUP_URL, "POST", group_info.fields, resp)
        IN  /\ group' = group_info
            /\ lastCall' = Call("createGroup", resp, content, EntityOrNone(content.content))
            /\ UNCHANGED <<consumer, token, client, expense, flatVars>>

deleteGroup ==
    \E resp \in Responses, group_id \in Ids :
        LET content == makeRequest(client, DELETE_GROUP_URL \o "/" \o ToString(group_id), "GET", EmptyMap, resp)
        IN  /\ lastCall' = Call("deleteGroup", resp, content, Return("None", <<>>))
            /\ UNCHANGED <<consumer, token, client, expense, group, flatVars>>

Next ==
    \/ getAuthorizeURL
    \/ getAccessToken
    \/ setAccessToken
    \/ getCurrentUser
    \/ getUser
    \/ getFriends
    \/ getGroups
    \/ getCurrencies
    \/ getCategories
    \/ getGroup
    \/ getExpenses
    \/ getExpense
    \/ createExpense
    \/ createGroup
    \/ deleteGroup

Spec == Init /\ [][Next]_vars

(***************************************************************************)
(* setUserArray on its own: every input within the bounds                  *)
(***************************************************************************)
FlatFields == {"id", "user_id", "paid_share"}

FlatValues(field) == IF field = "id" THEN {"1", "2"} ELSE IF field = "user_id" THEN {"9"} ELSE {"25"}

\* The __dict__ of a sub-entity: up to MaxFields distinct fields, in any
\* iteration order.
FlatUsers ==
    UNION { { d \in [1..n -> { <<f, v>> : f \in FlatFields, v \in {"1", "2", "9", "25"} }] :
                /\ \A i \in 1..n : d[i][2] \in FlatValues(d[i][1])
                /\ \A i, j \in 1..n : i # j => d[i][1] # d[j][1] } :
            n \in 0..Min(MaxFields, Cardinality(FlatFields)) }

FlatUserLists == UNION { [1..n -> FlatUsers] : n \in 0..MaxUsers }

\* The dict the keys are written into: scalar fields, possibly with a key of
\* the flattened form already in it.
FlatTargets ==
    { EmptyMap,
      [k \in {"cost"} |-> "30"],
      [k \in {"cost", "users__0__user_id"} |-> IF k = "cost" THEN "30" ELSE "7"] }

FlatInit ==
    /\ consumer = init_state("ck", "cs", NoAccessToken).consumer
    /\ token = init_state("ck", "cs", NoAccessToken).token
    /\ client = init_state("ck", "cs", NoAccessToken).client
    /\ lastCall = NoCall
    /\ expense \in Expenses
    /\ group \in Groups
    /\ in_users \in FlatUserLists
    /\ in_target \in FlatTargets
    /\ out_map = EmptyMap
    /\ fpc = "start"

\* One call setUserArray(in_users, in_target).
flatten ==
    /\ fpc = "start"
    /\ out_map' = setUserArray(in_users, in_target)
    /\ fpc' = "done"
    /\ UNCHANGED <<in_users, in_target, clientVars>>

\* The caller passes the same sub-entities in another order.
reorder ==
    /\ fpc = "done"
    /\ \E p \in Permutations(1..Len(in_users)) :
         /\ in_users' = [i \in 1..Len(in_users) |-> in_users[p[i]]]
         /\ in_users' # in_users
    /\ out_map' = EmptyMap
    /\ fpc' = "start"
    /\ UNCHANGED <<in_target, clientVars>>

FlatNext == flatten \/ reorder

FlattenSpec == FlatInit /\ [][FlatNext]_vars

(***************************************************************************)
(* Properties                                                              *)
(***************************************************************************)
HandshakeOps == {"getAuthorizeURL", "getAccessToken"}

ReadOps == {"getCurrentUser", "getUser", "getFriends", "getGroups", "getGroup",
            "getCurrencies", "getCategories", "getExpenses", "getExpense"}

CollectionOps == {"getFriends", "getGroups", "getCurrencies", "getCategories", "getExpenses"}

GatewayOps == ReadOps \cup {"createExpense", "createGroup", "deleteGroup"}

\* C1: no gateway-backed call sends a request while the instance has no
\* access token: such a call raises and nothing is sent, and every request
\* a gateway-backed call sends is signed with the instance's token.
C1_NoRequestBeforeToken ==
    /\ (token # NoToken) = client.present
    /\ lastCall.op \in GatewayOps =>
         /\ token = NoToken =>
              /\ lastCall.sent = 0
              /\ lastCall.request = NoRequest
              /\ lastCall.result.raised
         /\ lastCall.sent > 0 =>
              /\ token # NoToken
              /\ lastCall.request.signedWith = token

C1_Witness ==
    /\ lastCall.op = "getExpenses"
    /\ token = NoToken
    /\ lastCall.sent = 0
    /\ lastCall.result.raised

\* C2: a gateway call answered with status 401 raises the unauthorized
\* exception without parsing the body, whatever the body is; one answered
\* with another status than 200 raises the plain API exception carrying
\* the status and the reason phrase.
C2_StatusErrors ==
    (lastCall.op \in GatewayOps /\ lastCall.sent > 0) =>
        /\ lastCall.resp.status = "401" =>
             /\ lastCall.result.raised
             /\ lastCall.result.error = SplitwiseAPIUnauthorizedException
             /\ ~lastCall.parsed
        /\ lastCall.resp.status \notin {"200", "401"} =>
             /\ lastCall.result.raised
             /\ lastCall.result.error = SplitwiseAPIException
             /\ lastCall.message = "Error response " \o lastCall.resp.status \o ". "
                                     \o Reason(lastCall.resp.status)
             /\ ~lastCall.parsed

C2_Witness ==
    /\ lastCall.op = "getCurrentUser"
    /\ lastCall.resp.status = "401"
    /\ lastCall.resp.body.json
    /\ lastCall.resp.body.content.errors.shape = "map"
    /\ lastCall.resp.body.content.errors.base # <<>>
    /\ lastCall.result.error = SplitwiseAPIUnauthorizedException

\* C3: a gateway call answered with status 200 and a JSON object raises the
\* API exception exactly when the object's `errors` value is a non-empty
\* collection, the message joining the `base` messages or saying "unknown"
\* when there is no `base`; with `errors` missing or empty the gateway
\* raises nothing.
C3_ErrorsEnvelope ==
    (/\ lastCall.op \in GatewayOps
     /\ lastCall.sent > 0
     /\ lastCall.resp.status = "200"
     /\ lastCall.resp.body.json) =>
        LET errors == lastCall.resp.body.content.errors
            declared == errors.shape # "absent" /\ ErrorsLen(errors) > 0
        IN  /\ declared =>
                 /\ lastCall.gateway = SplitwiseAPIException
                 /\ lastCall.message =
                      "Exception in " \o lastCall.request.url \o ": "
                        \o Join(IF errors.shape = "map" /\ "base" \in errors.cats
                                THEN errors.base ELSE <<"unknown">>)
            /\ ~declared => lastCall.gateway = NoError

\* C8: a call of a public operation sends at most one request: exactly one
\* when it is a handshake step or a gateway-backed call that gets as far as
\* the transport, whatever the response; none only when it fails before
\* (no client on the instance, or an expense record without `users`).
C8_OneRoundTrip ==
    /\ lastCall.sent \in {0, 1}
    /\ lastCall.op \in HandshakeOps => lastCall.sent = 1
    /\ lastCall.sent = 1 => lastCall.resp # NoResponse /\ lastCall.request # NoRequest
    /\ (lastCall.op \in GatewayOps /\ lastCall.sent = 0) =>
         /\ lastCall.result.raised
         /\ lastCall.resp = NoResponse
         /\ ~client.present \/ (lastCall.op = "createExpense" /\ ~expense.hasUsers)
    /\ (lastCall.op \in GatewayOps /\ client.present /\ lastCall.op # "createExpense") =>
         lastCall.sent = 1

C8_Witness ==
    /\ lastCall.op = "getGroups"
    /\ lastCall.resp.status = "500"
    /\ lastCall.sent = 1
    /\ lastCall.result.raised

\* C4 (as claimed): a handshake step answered with a status other than 200
\* raises an error of a kind of its own, which is neither the gateway's API
\* exception nor its unauthorized exception.
C4_AuthSetupErrorIsDistinct ==
    (lastCall.op \in HandshakeOps /\ lastCall.resp.status # "200") =>
        /\ lastCall.result.raised
        /\ ~IsInstance(lastCall.result.error, SplitwiseAPIException)

\* C4 (amended): a handshake step answered with a status other than 200,
\* 401 included, raises SplitwiseAPIException itself, the class the gateway
\* raises for its API errors, with the message "Invalid response <status>.
\* Please check your consumer key and secret."; it never raises the
\* unauthorized exception.
C4_HandshakeRaisesApiException ==
    (lastCall.op \in HandshakeOps /\ lastCall.resp.status # "200") =>
        /\ lastCall.result.raised
        /\ lastCall.result.error = SplitwiseAPIException
        /\ lastCall.result.error # SplitwiseAPIUnauthorizedException
        /\ lastCall.message = "Invalid response " \o lastCall.resp.status
                                \o ". Please check your consumer key and secret."

C4_Witness ==
    /\ lastCall.op = "getAccessToken"
    /\ lastCall.resp.status = "401"
    /\ lastCall.result.error = SplitwiseAPIException

\* C5 (as claimed): once the instance has an access token, no operation
\* changes it.
C5_TokenNeverChanges == [][token # NoToken => token' = token]_vars

\* C5 (amended): once the instance has an access token it is never cleared,
\* and only a setAccessToken that succeeds changes it, replacing the token
\* and the signing client together; every request of a gateway-backed call
\* is signed with the token set last.
C5_TokenChangesOnlyBySetAccessToken ==
    [][ /\ token # NoToken =>
             /\ token' # NoToken
             /\ client'.present /\ client'.token = token' /\ client'.consumer = consumer
             /\ token' # token =>
                  (lastCall'.op = "setAccessToken" /\ ~lastCall'.result.raised)
        /\ (lastCall'.op \in GatewayOps /\ lastCall'.sent > 0) =>
             (lastCall'.request.signedWith = token /\ token' = token) ]_vars

C5_Witness ==
    /\ lastCall.op = "setAccessToken"
    /\ lastCall.result.raised
    /\ token = Token("tokA", "secA")
    /\ client = Client(consumer, token)

\* C7: a read wrapper whose call got a 200 JSON object without errors and
\* without the wrapper's payload key raises nothing and returns an empty
\* list (collections) or None (single entities).
C7_AbsentPayloadIsEmpty ==
    (/\ lastCall.op \in ReadOps
     /\ lastCall.sent > 0
     /\ lastCall.resp.status = "200"
     /\ lastCall.resp.body.json
     /\ lastCall.gateway = NoError
     /\ ~lastCall.resp.body.content.payload.present) =>
        /\ ~lastCall.result.raised
        /\ lastCall.result.items = <<>>
        /\ lastCall.result.kind = (IF lastCall.op \in CollectionOps THEN "list" ELSE "None")

\* C9: getAuthorizeURL and getAccessToken, raising or not, leave consumer,
\* token and client as they were; getAccessToken answered with status 200
\* only returns the pair of the response.
C9_HandshakeKeepsState ==
    [][ lastCall'.op \in HandshakeOps =>
          /\ UNCHANGED <<consumer, token, client>>
          /\ (lastCall'.op = "getAccessToken" /\ lastCall'.resp.status = "200") =>
               /\ lastCall'.result.kind = "token"
               /\ lastCall'.result.a = DictGet(lastCall'.resp.form, "oauth_token")
               /\ lastCall'.result.b = DictGet(lastCall'.resp.form, "oauth_token_secret") ]_vars

C9_Witness ==
    /\ lastCall.op = "getAccessToken"
    /\ ~lastCall.result.raised
    /\ lastCall.result.a = "tokB"
    /\ lastCall.result.b = "xyz"
    /\ token = NoToken
    /\ ~client.present

ExpenseFlattened ==
    [k \in {"cost", "users__0__user_id", "users__0__paid_share",
            "users__1__owed_share", "users__1__user_id"} |->
       CASE k = "cost" -> "25"
         [] k = "users__0__user_id" -> "1"
         [] k = "users__0__paid_share" -> "25"
         [] k = "users__1__owed_share" -> "25"
         [] k = "users__1__user_id" -> "2"]

GroupFlattened ==
    [k \in {"name", "users__0__user_id", "users__0__paid_share",
            "users__1__owed_share", "users__1__user_id"} |->
       CASE k = "name" -> "trip"
         [] k = "users__0__user_id" -> "1"
         [] k = "users__0__paid_share" -> "25"
         [] k = "users__1__owed_share" -> "25"
         [] k = "users__1__user_id" -> "2"]

\* C10: a createExpense on a record with `users` leaves the record without
\* `users` and with the flattened keys next to its scalar fields, whatever
\* the gateway does (also when it raises before sending); a createExpense
\* on a record without `users` raises before any request and leaves the
\* record alone.  A createGroup leaves the group without `members` and with
\* the flattened keys, and a createGroup on such a group sends these keys.
C10_RecordsChangedInPlace ==
    [][ /\ lastCall'.op = "createExpense" =>
             /\ ~expense'.hasUsers
             /\ expense'.users = <<>>
             /\ expense'.fields = ExpenseFlattened
             /\ expense.hasUsers =>
                  (lastCall'.sent = 1 => lastCall'.request.form = ExpenseFlattened)
             /\ ~expense.hasUsers =>
                  /\ lastCall'.sent = 0
                  /\ lastCall'.result.raised
                  /\ expense' = expense
        /\ lastCall'.op = "createGroup" =>
             /\ ~group'.hasMembers
             /\ group'.fields = GroupFlattened
             /\ lastCall'.sent = 1 => lastCall'.request.form = GroupFlattened
             /\ ~group.hasMembers => group' = group ]_vars

C10_Witness ==
    /\ lastCall.op = "createExpense"
    /\ client.present
    /\ lastCall.sent = 0
    /\ lastCall.result.raised
    /\ expense.fields = ExpenseFlattened
    /\ ~expense.hasUsers

\* The key the entity at position i (1-based here, 0-based in the key) gets
\* for its field f.
ExpectedKey(i, f) ==
    "users__" \o ToString(i - 1) \o "__" \o (IF f = "id" THEN "user_id" ELSE f)

\* The fields of the input, as (position of the entity, position of the
\* field in the entity), and the order they are visited in.
FlatSlots == UNION { { <<i, j>> : j \in 1..Len(in_users[i]) } : i \in 1..Len(in_users) }

SlotKey(s) == ExpectedKey(s[1], in_users[s[1]][s[2]][1])

SlotValue(s) == in_users[s[1]][s[2]][2]

Before(s, t) == s[1] < t[1] \/ (s[1] = t[1] /\ s[2] < t[2])

\* C6: after setUserArray(users, user_array) the dict holds, for the entity
\* at 0-based position i and each of its fields f with value v, the value v
\* under the key users__<i>__<g(f)>, g renaming `id` to `user_id` and
\* nothing else (the later write winning where two fields of one entity get
\* the same key); it holds no other new key, and its other keys keep their
\* values.
C6_FlattenByPosition ==
    fpc = "done" =>
        /\ DOMAIN out_map = DOMAIN in_target \cup { SlotKey(s) : s \in FlatSlots }
        /\ \A s \in FlatSlots :
             (\A t \in FlatSlots : Before(s, t) => SlotKey(t) # SlotKey(s))
                => out_map[SlotKey(s)] = SlotValue(s)
        /\ \A k \in DOMAIN in_target \ { SlotKey(s) : s \in FlatSlots } :
             out_map[k] = in_target[k]

C6_Witness ==
    /\ fpc = "done"
    /\ in_users = << << <<"paid_share", "25">>, <<"id", "2">> >>, << <<"id", "1">> >> >>
    /\ in_target = [k \in {"cost"} |-> "30"]
    /\ DOMAIN out_map = {"cost", "users__0__paid_share", "users__0__user_id", "users__1__user_id"}
    /\ out_map["users__0__user_id"] = "2"
    /\ out_map["users__1__user_id"] = "1"

====
